---- MODULE Spec2Model ----
(***************************************************************************)
(* State-machine model of the fw-fanctrl daemon: the FanController state   *)
(* (src/src/controller.rs), the tick loop and shutdown sequence of         *)
(* run_service (src/src/main.rs) and the command server                    *)
(* (src/src/socket.rs), all sharing one tokio Mutex.                       *)
(*                                                                         *)
(* Temperatures are the whole degrees HardwareController::get_temperature  *)
(* returns (a u8 widened to f64, always > 0); averages are kept as exact   *)
(* fractions <<numerator, denominator>>.                                    *)
(***************************************************************************)
EXTENDS Integers, Sequences, FiniteSets, TLC

\* ---------------------------------------------------------------- bounds
\* Number of client connections the model lets the listener accept.
MaxConns == 2
\* Number of samples the history may hold when the tick sleep fires again.
MaxSamples == 2

\* Number of samples the ticks of HistorySpec append (more than the cap).
MaxArrivals == 102

\* Longest speed curve of the config files CurveSpec starts from.
MaxCurveLen == 2

\* ------------------------------------------------------- program constants
TEMP_HISTORY_MAX_LEN == 100
\* HardwareController::get_temperature falls back to 50.0 without sensors,
\* and get_moving_average_temperature uses 50.0 when the read fails.
DEFAULT_TEMP == 50

Conns == 1..MaxConns

\* Option::None of overwritten_strategy.
None == "<none>"

\* Result values: Ok(v), Err(kind) and a panic unwinding out of the call.
Ok(v) == [ok |-> TRUE, value |-> v]
Err(kind) == [ok |-> FALSE, error |-> kind]
Panicked == [ok |-> FALSE, error |-> "panic"]

\* ------------------------------------------------------------ input data
\* Temperatures a successful sensor read returns; a failed fallback read
\* counts as DEFAULT_TEMP, so averages still vary.
Temps == {75}
\* Outcome of a failed hardware call.
HwErr == "ec_error"
\* Outcomes of HardwareController::get_temperature.
TempReads == {Ok(t) : t \in Temps} \cup {Err("Ec")}
\* Outcomes of HardwareController::is_on_ac.
AcReads == {"ac", "battery", HwErr}
\* Outcomes of set_fan_speed and enable_auto_fan.
CallResults == {"ok", HwErr}

Lazy == [fan_speed_update_frequency |-> 2, moving_average_interval |-> 2,
         speed_curve |-> <<[temp |-> 40, speed |-> 20], [temp |-> 80, speed |-> 100]>>]
Agile == [fan_speed_update_frequency |-> 1, moving_average_interval |-> 0,
          speed_curve |-> <<[temp |-> 50, speed |-> 50]>>]
Stalled == [fan_speed_update_frequency |-> 0, moving_average_interval |-> 1,
            speed_curve |-> <<[temp |-> 50, speed |-> 50]>>]
NoCurve == [fan_speed_update_frequency |-> 1, moving_average_interval |-> 1,
            speed_curve |-> <<>>]

\* Documents that may be found at the config path (startup and `reload`).
ConfigFiles ==
    { [default_strategy |-> "lazy", strategy_on_discharging |-> "agile",
       strategies |-> [n \in {"lazy", "agile"} |-> IF n = "lazy" THEN Lazy ELSE Agile]],
      [default_strategy |-> "agile", strategy_on_discharging |-> "",
       strategies |-> [n \in {"agile"} |-> Agile]],
      [default_strategy |-> "agile", strategy_on_discharging |-> "",
       strategies |-> [n \in {"agile"} |-> Stalled]],
      [default_strategy |-> "lazy", strategy_on_discharging |-> "",
       strategies |-> [n \in {"agile"} |-> Agile]],
      [default_strategy |-> "agile", strategy_on_discharging |-> "lazy",
       strategies |-> [n \in {"agile"} |-> Agile]],
      [default_strategy |-> "agile", strategy_on_discharging |-> "",
       strategies |-> [n \in {"agile"} |-> NoCurve]] }

\* Values of `run --strategy` (None when the flag is absent).
InitialStrategies == {None, "", "lazy", "bogus"}

\* Requests a client can send: the tokens left after the "--" filter.
Commands ==
    { <<>>, <<"use">>, <<"use", "lazy">>, <<"use", "agile">>, <<"use", "bogus">>,
      <<"reset">>, <<"reload">>, <<"pause">>, <<"resume">>,
      <<"print">>, <<"print", "active">>, <<"print", "current">>,
      <<"print", "list">>, <<"print", "speed">>, <<"print", "bogus">>,
      <<"bogus">> }

\* ---------------------------------------------------------------- config
\* Config::get_strategy(name).is_some()
HasStrategy(cfg, name) == name \in DOMAIN cfg.strategies

\* Config::validate
validate(cfg) ==
    /\ HasStrategy(cfg, cfg.default_strategy)
    /\ (cfg.strategy_on_discharging # "" => HasStrategy(cfg, cfg.strategy_on_discharging))
    /\ \A n \in DOMAIN cfg.strategies : Len(cfg.strategies[n].speed_curve) > 0

ConfigErr == [error |-> "Config"]

\* Config::load: a read or parse failure, or the validated document.
LoadResults == {c \in ConfigFiles : validate(c)} \cup {ConfigErr}

\* Config::get_discharging_strategy: the key it looks up.
DischargingName(cfg) ==
    IF cfg.strategy_on_discharging = "" THEN cfg.default_strategy
    ELSE cfg.strategy_on_discharging

\* -------------------------------------------------------------- curve.rs
\* Rust's `/` on i32 truncates toward zero.
TruncDiv(a, b) ==
    IF (a < 0) = (b < 0)
    THEN (IF a < 0 THEN (-a) \div (-b) ELSE a \div b)
    ELSE (IF a < 0 THEN -((-a) \div b) ELSE -(a \div (-b)))

\* A clamp that bounds the value from below only.
ClampFromBelow(v, lo, hi) == IF v < lo THEN lo ELSE v

Clamp(v, lo, hi) == IF v < lo THEN lo ELSE IF v > hi THEN hi ELSE v

\* A scan that also passes the points at the temperature itself.
RECURSIVE ScanCurve_inclusive(_, _, _, _, _)
ScanCurve_inclusive(curve, temp, i, min_point, max_point) ==
    IF i > Len(curve) THEN <<min_point, max_point>>
    ELSE IF temp >= curve[i].temp
         THEN ScanCurve_inclusive(curve, temp, i + 1, curve[i], max_point)
         ELSE <<min_point, curve[i]>>

\* The for loop of interpolate, from index i on: <<min_point, max_point>>.
RECURSIVE ScanCurve(_, _, _, _, _)
ScanCurve(curve, temp, i, min_point, max_point) ==
    IF i > Len(curve) THEN <<min_point, max_point>>
    ELSE IF temp > curve[i].temp
         THEN ScanCurve(curve, temp, i + 1, curve[i], max_point)
         ELSE <<min_point, curve[i]>>

\* An interpolate that draws one line through the first and the last point.
interpolate_between_ends(curve, temp) ==
    IF Len(curve) = 0 THEN 0
    ELSE LET min_point == curve[1]
             max_point == curve[Len(curve)]
         IN  IF min_point.temp = max_point.temp THEN min_point.speed
             ELSE Clamp(min_point.speed + (temp - min_point.temp)
                            * TruncDiv(max_point.speed - min_point.speed,
                                       max_point.temp - min_point.temp), 0, 100)

\* curve::interpolate
interpolate(curve, temp) ==
    IF Len(curve) = 0 THEN 0
    ELSE LET pts == ScanCurve(curve, temp, 1, curve[1], curve[Len(curve)])
             min_point == pts[1]
             max_point == pts[2]
         IN  IF min_point.temp = max_point.temp THEN min_point.speed
             ELSE LET slope == TruncDiv(max_point.speed - min_point.speed,
                                        max_point.temp - min_point.temp)
                      new_speed == min_point.speed + (temp - min_point.temp) * slope
                  IN  Clamp(new_speed, 0, 100)

\* --------------------------------------------------------- controller.rs
\* FanController::new: an empty initial strategy is dropped, nothing else.
new(cfg, initial_strategy) ==
    [config |-> cfg,
     overwritten_strategy |-> IF initial_strategy = "" THEN None ELSE initial_strategy,
     temp_history |-> <<>>,
     current_speed |-> 0,
     active |-> TRUE,
     timecount |-> 0]

\* self.hw.is_on_ac().unwrap_or(true)
OnAcOrTrue(ac) == ac \in {"ac", HwErr}

\* self.hw.is_on_ac().unwrap_or(false)
OnAcOrFalse(ac) == ac = "ac"

\* What get_current_strategy returns when its expect() panics.
PanicStrategy == [panic |-> "Overwritten strategy must exist"]

\* FanController::get_current_strategy; ac is the outcome of the is_on_ac
\* call it makes when no override is set.
get_current_strategy(ctrl, ac) ==
    IF ctrl.overwritten_strategy # None
    THEN IF HasStrategy(ctrl.config, ctrl.overwritten_strategy)
         THEN ctrl.config.strategies[ctrl.overwritten_strategy]
         ELSE PanicStrategy
    ELSE IF OnAcOrFalse(ac)
         THEN ctrl.config.strategies[ctrl.config.default_strategy]
         ELSE ctrl.config.strategies[DischargingName(ctrl.config)]

\* FanController::get_current_strategy_name
get_current_strategy_name(ctrl, ac) ==
    IF ctrl.overwritten_strategy # None THEN ctrl.overwritten_strategy
    ELSE IF OnAcOrFalse(ac) THEN ctrl.config.default_strategy
    ELSE IF ctrl.config.strategy_on_discharging = "" THEN ctrl.config.default_strategy
    ELSE ctrl.config.strategy_on_discharging

\* An is_overwritten that never sees an override.
is_overwritten_never(ctrl) == FALSE

\* FanController::is_overwritten
is_overwritten(ctrl) == ctrl.overwritten_strategy # None

\* An overwrite_strategy that does not look the name up.
overwrite_strategy_unchecked(ctrl, name) ==
    [controller |-> [ctrl EXCEPT !.overwritten_strategy = name, !.timecount = 0],
     result |-> Ok("unit")]

\* FanController::overwrite_strategy
overwrite_strategy(ctrl, name) ==
    IF ~HasStrategy(ctrl.config, name)
    THEN [controller |-> ctrl, result |-> Err("Strategy")]
    ELSE [controller |-> [ctrl EXCEPT !.overwritten_strategy = name, !.timecount = 0],
          result |-> Ok("unit")]

\* A clear_overwritten_strategy that leaves the override in place.
clear_keeping_override(ctrl) == [ctrl EXCEPT !.timecount = 0]

\* FanController::clear_overwritten_strategy
clear_overwritten_strategy(ctrl) ==
    [ctrl EXCEPT !.overwritten_strategy = None, !.timecount = 0]

\* A reload_config that keeps the override whatever the new config holds.
reload_config_keeping_override(ctrl, cfg) == [ctrl EXCEPT !.config = cfg]

\* FanController::reload_config
reload_config(ctrl, cfg) ==
    LET replaced == [ctrl EXCEPT !.config = cfg]
    IN  IF replaced.overwritten_strategy # None
           /\ ~HasStrategy(cfg, replaced.overwritten_strategy)
        THEN [replaced EXCEPT !.overwritten_strategy = None]
        ELSE replaced

\* A pause that calls the hardware but leaves the controller active.
pause_staying_active(ctrl, auto) ==
    [controller |-> ctrl, result |-> IF auto = "ok" THEN Ok("unit") ELSE Err("Ec")]

\* FanController::pause; auto is the outcome of hw.enable_auto_fan().
pause(ctrl, auto) ==
    [controller |-> [ctrl EXCEPT !.active = FALSE],
     result |-> IF auto = "ok" THEN Ok("unit") ELSE Err("Ec")]

\* A resume that leaves the controller paused.
resume_staying_paused(ctrl) == [controller |-> ctrl, result |-> Ok("unit")]

\* FanController::resume
resume(ctrl) == [controller |-> [ctrl EXCEPT !.active = TRUE], result |-> Ok("unit")]

RECURSIVE SeqSum(_)
SeqSum(s) == IF s = <<>> THEN 0 ELSE Head(s) + SeqSum(Tail(s))

\* A filter that also keeps samples of 0 degrees.
IsNonNegative(t) == t >= 0

\* The filter of the moving average: `t > 0.0`.
IsPositive(t) == t > 0

\* usize::saturating_sub
SaturatingSub(a, b) == IF a > b THEN a - b ELSE 0

\* self.get_actual_temperature().unwrap_or(50.0)
ActualOrDefault(actual) == IF actual.ok THEN actual.value ELSE DEFAULT_TEMP

\* FanController::get_moving_average_temperature, as the fraction
\* <<sum, count>>; actual is the outcome of the fallback sensor read.
get_moving_average_temperature(ctrl, interval, actual) ==
    LET positive_temps == SelectSeq(ctrl.temp_history, IsPositive)
        n == Len(positive_temps)
    IN  IF n = 0 THEN <<ActualOrDefault(actual), 1>>
        ELSE LET slice_start == SaturatingSub(n, interval)
                 slice == SubSeq(positive_temps, slice_start + 1, n)
             IN  IF Len(slice) = 0 THEN <<SeqSum(positive_temps), n>>
                 ELSE <<SeqSum(slice), Len(slice)>>

\* A rounding that always goes up to the next whole number.
RoundFracUp(num, den) == (num + den - 1) \div den

\* f64::round of the non-negative fraction num/den (half away from zero).
RoundFrac(num, den) == (2 * num + den) \div (2 * den)

\* FanController::get_effective_temperature, in hundredths of a degree:
\* ((moving_avg * 2 + current_temp) / 3 * 100).round()
get_effective_temperature(ctrl, current_temp, interval, actual) ==
    LET moving_avg == get_moving_average_temperature(ctrl, interval, actual)
    IN  RoundFrac(100 * (2 * moving_avg[1] + current_temp * moving_avg[2]),
                  3 * moving_avg[2])

\* `effective_temp as u32`: hundredths truncated to whole degrees.
AsU32(hundredths) == hundredths \div 100

\* The new_speed of adapt_speed; ac and actual are the outcomes of the
\* is_on_ac and fallback sensor reads it makes on the way.
adapt_new_speed(ctrl, current_temp, ac, actual) ==
    LET strategy == get_current_strategy(ctrl, ac)
        effective_temp == get_effective_temperature(
                              ctrl, current_temp, strategy.moving_average_interval, actual)
    IN  interpolate(strategy.speed_curve, AsU32(effective_temp))

\* A step() that appends and never evicts.
push_sample_unbounded(ctrl, temp) ==
    [ctrl EXCEPT !.temp_history = Append(ctrl.temp_history, temp),
                 !.timecount = ctrl.timecount + 1]

\* A tail of step() that does not count the tick.
push_sample_uncounted(ctrl, temp) ==
    LET pushed == Append(ctrl.temp_history, temp)
    IN  [ctrl EXCEPT
            !.temp_history = IF Len(pushed) > TEMP_HISTORY_MAX_LEN THEN Tail(pushed) ELSE pushed]

\* The tail of step(): push_back, pop_front beyond the cap, timecount += 1.
push_sample(ctrl, temp) ==
    LET pushed == Append(ctrl.temp_history, temp)
    IN  [ctrl EXCEPT
            !.temp_history = IF Len(pushed) > TEMP_HISTORY_MAX_LEN THEN Tail(pushed) ELSE pushed,
            !.timecount = ctrl.timecount + 1]

\* A step() whose hardware always fails and that still counts the tick.
step_begin_counting_failures(ctrl, read, ac1, ac2, actual, write) ==
    [kind |-> "err", controller |-> [ctrl EXCEPT !.timecount = ctrl.timecount + 1],
     temp |-> 0, new_speed |-> 0]

\* A step() that resets the counter before the duty write, so that a failed
\* write leaves it reset.
step_begin_resetting_first(ctrl, read, ac1, ac2, actual, write) ==
    IF ~read.ok THEN [kind |-> "err", controller |-> ctrl, temp |-> 0, new_speed |-> 0]
    ELSE LET temp == read.value
             strategy == get_current_strategy(ctrl, ac1)
         IN  IF strategy = PanicStrategy \/ strategy.fan_speed_update_frequency = 0
             THEN [kind |-> "panic", controller |-> ctrl, temp |-> temp, new_speed |-> 0]
             ELSE IF ctrl.timecount % strategy.fan_speed_update_frequency = 0
             THEN LET new_speed == adapt_new_speed(ctrl, temp, ac2, actual)
                      reset == [ctrl EXCEPT !.timecount = 0]
                  IN  IF ctrl.active
                      THEN IF write = HwErr
                           THEN [kind |-> "err", controller |-> reset,
                                 temp |-> temp, new_speed |-> new_speed]
                           ELSE [kind |-> "written", controller |-> reset,
                                 temp |-> temp, new_speed |-> new_speed]
                      ELSE [kind |-> "done", controller |-> push_sample(reset, temp),
                            temp |-> temp, new_speed |-> new_speed]
             ELSE [kind |-> "done", controller |-> push_sample(ctrl, temp),
                   temp |-> temp, new_speed |-> 0]

\* FanController::step up to and including the set_fan_speed call.
\* read: get_temperature; ac1, ac2: is_on_ac in step and in adapt_speed;
\* actual: fallback sensor read; write: set_fan_speed.
\*   kind "err"     - step returns Err, nothing assigned
\*   kind "panic"   - expect() or the remainder by zero panics
\*   kind "done"    - step ran to its end without a duty write
\*   kind "written" - the duty write succeeded, the assignments follow
step_begin(ctrl, read, ac1, ac2, actual, write) ==
    IF ~read.ok THEN [kind |-> "err", controller |-> ctrl, temp |-> 0, new_speed |-> 0]
    ELSE LET temp == read.value
             strategy == get_current_strategy(ctrl, ac1)
         IN  IF strategy = PanicStrategy \/ strategy.fan_speed_update_frequency = 0
             THEN [kind |-> "panic", controller |-> ctrl, temp |-> temp, new_speed |-> 0]
             ELSE IF ctrl.timecount % strategy.fan_speed_update_frequency = 0
             THEN LET new_speed == adapt_new_speed(ctrl, temp, ac2, actual)
                  IN  IF ctrl.active
                      THEN IF write = HwErr
                           THEN [kind |-> "err", controller |-> ctrl,
                                 temp |-> temp, new_speed |-> new_speed]
                           ELSE [kind |-> "written", controller |-> ctrl,
                                 temp |-> temp, new_speed |-> new_speed]
                      ELSE [kind |-> "done",
                            controller |-> push_sample([ctrl EXCEPT !.timecount = 0], temp),
                            temp |-> temp, new_speed |-> new_speed]
             ELSE [kind |-> "done", controller |-> push_sample(ctrl, temp),
                   temp |-> temp, new_speed |-> 0]

\* An adapt_speed that does not record the duty it wrote.
step_commit_stale_speed(ctrl, temp, new_speed) ==
    push_sample([ctrl EXCEPT !.timecount = 0], temp)

\* The rest of step() after a successful duty write: current_speed, the
\* counter reset, the history push and the increment.
step_commit(ctrl, temp, new_speed) ==
    push_sample([ctrl EXCEPT !.current_speed = new_speed, !.timecount = 0], temp)

\* -------------------------------------------------------------- socket.rs
\* What the client finds on the stream when the handler wrote nothing.
NoReply == [status |-> "<connection closed without a reply>"]

\* print_selection; read, ac1, ac2, actual1, actual2 are the outcomes of the
\* hardware calls "all" makes, in call order.
print_selection(ctrl, selection, read, ac1, actual1, actual2, ac2) ==
    CASE selection = "all" ->
           IF ~read.ok THEN Err("Ec")
           ELSE LET strategy == get_current_strategy(ctrl, ac1)
                IN  IF strategy = PanicStrategy THEN Panicked
                    ELSE Ok([status |-> "success",
                             strategy |-> get_current_strategy_name(ctrl, ac2),
                             default |-> ~is_overwritten(ctrl),
                             speed |-> ctrl.current_speed,
                             temperature |-> read.value,
                             movingAverageTemperature |->
                                 get_moving_average_temperature(
                                     ctrl, strategy.moving_average_interval, actual1),
                             effectiveTemperature |->
                                 get_effective_temperature(
                                     ctrl, read.value, strategy.moving_average_interval, actual2),
                             active |-> ctrl.active,
                             configuration |-> ctrl.config])
      [] selection = "active" -> Ok([status |-> "success", active |-> ctrl.active])
      [] selection = "current" ->
           Ok([status |-> "success",
               strategy |-> get_current_strategy_name(ctrl, ac1),
               default |-> ~is_overwritten(ctrl)])
      [] selection = "list" ->
           Ok([status |-> "success", strategies |-> DOMAIN ctrl.config.strategies])
      [] selection = "speed" -> Ok([status |-> "success", speed |-> ctrl.current_speed])
      [] OTHER -> Err("Command")

\* handle_connection after process_command returned: the bytes written to
\* the stream. `process_command(..).await?` returns before write_all on Err,
\* and a panicking task drops the stream.
handle_connection_reply(result) == IF result.ok THEN result.value ELSE NoReply

\* ------------------------------------------------------------------ state
VARIABLES
    controller,      \* the FanController behind the Mutex
    lock,            \* holder of the tokio Mutex: Free, Main or Conn(c)
    ec,              \* the embedded controller: last fan command it accepted
    mainpc,          \* position of run_service's async block
    pending,         \* step()'s locals between the duty write and the assignments
    sig,             \* SIGINT/SIGTERM delivered and not yet seen by select!
    shutdown,        \* the AtomicBool shared with the accept loop
    accpc,           \* the accept loop: "run" or "done"
    cleanup_result,  \* outcome of the enable_auto_fan call at shutdown
    connpc,          \* per connection: where its handler task is
    served           \* per connection: the command it carried and what came of it

vars == <<controller, lock, ec, mainpc, pending, sig, shutdown, accpc,
          cleanup_result, connpc, served>>

mainVars == <<mainpc, pending, shutdown, cleanup_result>>
connVars == <<connpc, served>>

\* Holders of the Mutex.
Free == <<"free">>
Main == <<"main">>
Conn(c) == <<"conn", c>>

NoPending == [temp |-> 0, new_speed |-> 0]
NotCalled == "<not called>"

\* A handler that has not run process_command to its end:
\*   request - the tokens of the command
\*   before  - the controller when the match arm started
\*   power   - outcome of the is_on_ac call behind the strategy name replied
\*   result  - what process_command returned
\*   reply   - what handle_connection wrote to the stream
NotServed ==
    [request |-> <<"<nothing read>">>, before |-> "<not run>", power |-> NotCalled,
     result |-> [ok |-> FALSE, error |-> "<not run>"], reply |-> NoReply]

\* The process is gone once run_service returned or a panic unwound main.
ProcessAlive == mainpc \notin {"exited", "panicked"}

\* State when the tick loop is entered: the controller is built from a
\* loaded config and the --strategy option, the first enable_auto_fan call
\* succeeded and the socket server is listening.
Init ==
    /\ \E cfg \in LoadResults \ {ConfigErr}, s \in InitialStrategies :
          controller = new(cfg, s)
    /\ lock = Free
    /\ ec = [auto |-> TRUE, duty |-> 0]
    /\ mainpc = "select"
    /\ pending = NoPending
    /\ sig = FALSE
    /\ shutdown = FALSE
    /\ accpc = "run"
    /\ cleanup_result = "<not called>"
    /\ connpc = [c \in Conns |-> "idle"]
    /\ served = [c \in Conns |-> NotServed]

\* A handler that has its result closes its stream before anything else
\* happens (see Close).
NoneReplying == \A c \in Conns : connpc[c] # "reply"

\* A lock whose lock().await resolves whoever holds it.
CanLockAlways(holder) == TRUE

\* tokio Mutex::lock().await resolves only when nobody holds the lock.
CanLock(holder) == holder = Free

\* ---------------------------------------------------------- main.rs: loop
\* SIGINT or SIGTERM is delivered to the process.
Signal ==
    /\ NoneReplying
    /\ ProcessAlive /\ ~sig
    /\ sig' = TRUE
    /\ UNCHANGED <<controller, lock, ec, mainVars, accpc, connVars>>

\* select!: the signal branch; break, then shutdown.store(true).
SelectBreak ==
    /\ NoneReplying
    /\ mainpc = "select" /\ sig
    /\ mainpc' = "join"
    /\ shutdown' = TRUE
    /\ UNCHANGED <<controller, lock, ec, pending, sig, accpc, cleanup_result, connVars>>

\* select!: the sleep branch; the tick goes on to lock the controller.
SelectSleep ==
    /\ NoneReplying
    /\ mainpc = "select" /\ ~sig
    /\ Len(controller.temp_history) < MaxSamples
    /\ mainpc' = "tick_lock"
    /\ UNCHANGED <<controller, lock, ec, pending, sig, shutdown, accpc, cleanup_result, connVars>>

\* controller_handle.lock().await in the tick.
TickLock ==
    /\ NoneReplying
    /\ mainpc = "tick_lock" /\ CanLock(lock)
    /\ lock' = Main
    /\ mainpc' = "step"
    /\ UNCHANGED <<controller, ec, pending, sig, shutdown, accpc, cleanup_result, connVars>>

\* Outcomes of the is_on_ac calls made on ctrl: strategy resolution reads
\* the power source only when no override is set.
AcReadsOf(ctrl) == IF ctrl.overwritten_strategy = None THEN AcReads ELSE {"<not called>"}

\* Outcomes of the fallback sensor reads made on ctrl: the moving average
\* reads the sensor only when the history holds no positive sample.
ActualReadsOf(ctrl) ==
    IF SelectSeq(ctrl.temp_history, IsPositive) = <<>> THEN TempReads ELSE {Err("Ec")}

\* What ctrl.step() can do up to the duty write, over every outcome of the
\* hardware calls it makes.
StepOutcomes(ctrl) ==
    { step_begin(ctrl, read, ac1, ac2, actual, write) :
        read \in TempReads, ac1 \in AcReadsOf(ctrl), ac2 \in AcReadsOf(ctrl),
        actual \in ActualReadsOf(ctrl), write \in CallResults }

\* ctrl.step() up to the duty write; the guard is dropped at the end of the
\* match arm unless the assignments are still to come.
TickStep ==
    /\ NoneReplying
    /\ mainpc = "step"
    /\ \E s \in StepOutcomes(controller) :
        /\ controller' = s.controller
        /\ CASE s.kind = "written" ->
                  /\ ec' = [auto |-> FALSE, duty |-> s.new_speed]
                  /\ pending' = [temp |-> s.temp, new_speed |-> s.new_speed]
                  /\ mainpc' = "step_written"
                  /\ lock' = lock
             [] s.kind = "panic" ->
                  /\ mainpc' = "panicked"
                  /\ UNCHANGED <<ec, pending, lock>>
             [] OTHER ->
                  /\ mainpc' = "select"
                  /\ lock' = Free
                  /\ UNCHANGED <<ec, pending>>
    /\ UNCHANGED <<sig, shutdown, accpc, cleanup_result, connVars>>

\* A tick that keeps its guard alive into the next select!.
TickCommitKeepingGuard ==
    /\ NoneReplying
    /\ mainpc = "step_written"
    /\ controller' = step_commit(controller, pending.temp, pending.new_speed)
    /\ pending' = NoPending
    /\ mainpc' = "select"
    /\ UNCHANGED <<lock, ec, sig, shutdown, accpc, cleanup_result, connVars>>

\* The assignments of adapt_speed and step after the duty write, then the
\* guard is dropped.
TickCommit ==
    /\ NoneReplying
    /\ mainpc = "step_written"
    /\ controller' = step_commit(controller, pending.temp, pending.new_speed)
    /\ pending' = NoPending
    /\ lock' = Free
    /\ mainpc' = "select"
    /\ UNCHANGED <<ec, sig, shutdown, accpc, cleanup_result, connVars>>

\* ------------------------------------------------------ main.rs: shutdown
\* socket_task.await returns once the accept task has ended.
JoinSocket ==
    /\ NoneReplying
    /\ mainpc = "join" /\ accpc = "done"
    /\ mainpc' = "cleanup_lock"
    /\ UNCHANGED <<controller, lock, ec, pending, sig, shutdown, accpc,
                   cleanup_result, connVars>>

\* controller_handle.lock().await of the cleanup block.
CleanupLock ==
    /\ NoneReplying
    /\ mainpc = "cleanup_lock" /\ CanLock(lock)
    /\ lock' = Main
    /\ mainpc' = "cleanup"
    /\ UNCHANGED <<controller, ec, pending, sig, shutdown, accpc,
                   cleanup_result, connVars>>

\* ctrl.enable_auto_fan(), the guard is dropped, run_service returns and the
\* runtime is torn down with it.
Cleanup ==
    /\ NoneReplying
    /\ mainpc = "cleanup"
    /\ \E auto \in CallResults :
        /\ cleanup_result' = auto
        /\ ec' = IF auto = "ok" THEN [ec EXCEPT !.auto = TRUE] ELSE ec
    /\ lock' = Free
    /\ mainpc' = "exited"
    /\ UNCHANGED <<controller, pending, sig, shutdown, accpc, connVars>>

\* ------------------------------------------------- socket.rs: accept loop
\* listener.accept() returns a connection and its handler task is spawned;
\* the loop then re-reads the shutdown flag.
AcceptConn(c) ==
    /\ NoneReplying
    /\ ProcessAlive /\ accpc = "run" /\ connpc[c] = "idle"
    /\ connpc' = [connpc EXCEPT ![c] = "read"]
    /\ accpc' = IF shutdown THEN "done" ELSE "run"
    /\ UNCHANGED <<controller, lock, ec, mainVars, sig, served>>

\* accept() returns WouldBlock, the thread sleeps 100 ms and then finds the
\* shutdown flag set.
AcceptStop ==
    /\ NoneReplying
    /\ ProcessAlive /\ accpc = "run" /\ shutdown
    /\ accpc' = "done"
    /\ UNCHANGED <<controller, lock, ec, mainVars, sig, connVars>>

\* ---------------------------------------------- socket.rs: one connection
\* process_command returned (or unwound): handle_connection writes the
\* reply, or returns the error without writing.
Served(c, parts, before, o) ==
    /\ connpc' = [connpc EXCEPT ![c] = "reply"]
    /\ served' = [served EXCEPT ![c] =
                    [request |-> parts, before |-> before, power |-> o.power,
                     result |-> o.result, reply |-> handle_connection_reply(o.result)]]

\* stream.read returns 0 bytes or fails: handle_connection returns before
\* process_command.
ReceiveNothing(c) ==
    /\ NoneReplying
    /\ ProcessAlive /\ connpc[c] = "read"
    /\ connpc' = [connpc EXCEPT ![c] = "closed"]
    /\ UNCHANGED <<controller, lock, ec, mainVars, sig, accpc, served>>

\* stream.read returns bytes that leave no token after the "--" filter:
\* process_command returns Err before it locks.
ReceiveEmpty(c) ==
    /\ NoneReplying
    /\ ProcessAlive /\ connpc[c] = "read"
    /\ Served(c, <<>>, controller, [result |-> Err("Command"), power |-> NotCalled])
    /\ UNCHANGED <<controller, lock, ec, mainVars, sig, accpc>>

\* stream.read returns a command with at least one token: process_command
\* goes on to controller.lock().await. The tokens are not looked at before
\* the match, so they are drawn there.
Receive(c) ==
    /\ NoneReplying
    /\ ProcessAlive /\ connpc[c] = "read"
    /\ connpc' = [connpc EXCEPT ![c] = "lock"]
    /\ UNCHANGED <<controller, lock, ec, mainVars, sig, accpc, served>>

\* controller.lock().await in process_command.
ConnLock(c) ==
    /\ NoneReplying
    /\ ProcessAlive /\ connpc[c] = "lock" /\ CanLock(lock)
    /\ lock' = Conn(c)
    /\ connpc' = [connpc EXCEPT ![c] = "cs"]
    /\ UNCHANGED <<controller, ec, mainVars, sig, accpc, served>>

\* The match arms of process_command: the controller they leave behind,
\* the Result they return and the is_on_ac outcome behind a replied name.
cmd_use(ctrl, parts, ac) ==
    IF Len(parts) < 2
    THEN [controller |-> ctrl, result |-> Err("Command"), power |-> NotCalled]
    ELSE LET o == overwrite_strategy(ctrl, parts[2])
         IN  IF ~o.result.ok
             THEN [controller |-> o.controller, result |-> o.result, power |-> NotCalled]
             ELSE [controller |-> o.controller,
                   result |-> Ok([status |-> "success",
                                  strategy |-> get_current_strategy_name(o.controller, ac)]),
                   power |-> ac]

cmd_reset(ctrl, ac) ==
    LET cleared == clear_overwritten_strategy(ctrl)
    IN  [controller |-> cleared,
         result |-> Ok([status |-> "success",
                        strategy |-> get_current_strategy_name(cleared, ac)]),
         power |-> ac]

cmd_reload(ctrl, load) ==
    IF load = ConfigErr
    THEN [controller |-> ctrl, result |-> Err("Config"), power |-> NotCalled]
    ELSE [controller |-> reload_config(ctrl, load), result |-> Ok([status |-> "success"]),
          power |-> NotCalled]

cmd_pause(ctrl, auto) ==
    LET p == pause(ctrl, auto)
    IN  [controller |-> p.controller,
         result |-> IF p.result.ok THEN Ok([status |-> "success"]) ELSE p.result,
         power |-> NotCalled]

cmd_resume(ctrl) ==
    [controller |-> resume(ctrl).controller, result |-> Ok([status |-> "success"]),
     power |-> NotCalled]

\* A print arm whose "all" selector files the temperature it read as a sample.
cmd_print_recording(ctrl, parts, read, ac1, actual1, actual2, ac2) ==
    LET selection == IF Len(parts) >= 2 THEN parts[2] ELSE "all"
    IN  [controller |-> IF selection = "all" /\ read.ok
                        THEN [ctrl EXCEPT !.temp_history = Append(@, read.value)]
                        ELSE ctrl,
         result |-> print_selection(ctrl, selection, read, ac1, actual1, actual2, ac2),
         power |-> IF selection = "all" THEN ac2
                   ELSE IF selection = "current" THEN ac1 ELSE NotCalled]

\* The "print" arm of process_command: the selector defaults to "all".
cmd_print(ctrl, parts, read, ac1, actual1, actual2, ac2) ==
    LET selection == IF Len(parts) >= 2 THEN parts[2] ELSE "all"
    IN  [controller |-> ctrl,
         result |-> print_selection(ctrl, selection, read, ac1, actual1, actual2, ac2),
         power |-> IF selection = "all" THEN ac2
                   ELSE IF selection = "current" THEN ac1 ELSE NotCalled]

cmd_unknown(ctrl) == [controller |-> ctrl, result |-> Err("Command"), power |-> NotCalled]

Verbs == {"use", "reset", "reload", "pause", "resume", "print"}

\* The requests whose first token is verb.
WithVerb(verb) == {parts \in Commands : Len(parts) > 0 /\ parts[1] = verb}

\* A process_command whose guard outlives an Err return.
FinishHoldingOnErr(c, parts, o) ==
    /\ controller' = o.controller
    /\ lock' = IF o.result.ok THEN Free ELSE lock
    /\ Served(c, parts, controller, o)
    /\ UNCHANGED <<mainVars, sig, accpc>>

\* A match arm ran: the guard is dropped when process_command returns (or
\* unwinds), then handle_connection replies or gives up.
Finish(c, parts, o) ==
    /\ controller' = o.controller
    /\ lock' = Free
    /\ Served(c, parts, controller, o)
    /\ UNCHANGED <<mainVars, sig, accpc>>

Holding(c) == NoneReplying /\ ProcessAlive /\ connpc[c] = "cs"

ExecUse(c) ==
    /\ Holding(c)
    /\ \E parts \in WithVerb("use") :
        Finish(c, parts, cmd_use(controller, parts, NotCalled))
    /\ UNCHANGED ec

ExecReset(c) ==
    /\ Holding(c)
    /\ \E parts \in WithVerb("reset") :
        \E ac \in AcReads : Finish(c, parts, cmd_reset(controller, ac))
    /\ UNCHANGED ec

ExecReload(c) ==
    /\ Holding(c)
    /\ \E parts \in WithVerb("reload"), load \in LoadResults :
        Finish(c, parts, cmd_reload(controller, load))
    /\ UNCHANGED ec

ExecPause(c) ==
    /\ Holding(c)
    /\ \E parts \in WithVerb("pause"), auto \in CallResults :
        /\ Finish(c, parts, cmd_pause(controller, auto))
        /\ ec' = IF auto = "ok" THEN [ec EXCEPT !.auto = TRUE] ELSE ec

ExecResume(c) ==
    /\ Holding(c)
    /\ \E parts \in WithVerb("resume") : Finish(c, parts, cmd_resume(controller))
    /\ UNCHANGED ec

\* What the print arm can return, over every outcome of the hardware calls
\* the selector makes.
PrintOutcomes(ctrl, parts) ==
    IF parts \in {<<"print">>, <<"print", "all">>}
    THEN { cmd_print(ctrl, parts, read, ac1, actual1, actual2, ac2) :
             read \in TempReads, ac1 \in AcReadsOf(ctrl), actual1 \in ActualReadsOf(ctrl),
             actual2 \in ActualReadsOf(ctrl), ac2 \in AcReadsOf(ctrl) }
    ELSE IF parts = <<"print", "current">>
    THEN { cmd_print(ctrl, parts, Err("Ec"), ac1, Err("Ec"), Err("Ec"), ac1) :
             ac1 \in AcReadsOf(ctrl) }
    ELSE { cmd_print(ctrl, parts, Err("Ec"), NotCalled, Err("Ec"), Err("Ec"), NotCalled) }

ExecPrint(c) ==
    /\ Holding(c)
    /\ \E parts \in WithVerb("print") :
        \E o \in PrintOutcomes(controller, parts) : Finish(c, parts, o)
    /\ UNCHANGED ec

ExecUnknown(c) ==
    /\ Holding(c)
    /\ \E parts \in {p \in Commands : Len(p) > 0 /\ p[1] \notin Verbs} :
        Finish(c, parts, cmd_unknown(controller))
    /\ UNCHANGED ec

\* handle_connection returns and the stream is dropped. Nothing else reads
\* a handler's locals, so this step is taken before any other.
Close(c) ==
    /\ connpc[c] = "reply"
    /\ connpc' = [connpc EXCEPT ![c] = "closed"]
    /\ served' = [served EXCEPT ![c] = NotServed]
    /\ UNCHANGED <<controller, lock, ec, mainVars, sig, accpc>>

\* ------------------------------------------------------------------- spec
Next ==
    \/ Signal
    \/ SelectBreak
    \/ SelectSleep
    \/ TickLock
    \/ TickStep
    \/ TickCommit
    \/ JoinSocket
    \/ CleanupLock
    \/ Cleanup
    \/ AcceptStop
    \/ \E c \in Conns : AcceptConn(c)
    \/ \E c \in Conns : ReceiveNothing(c)
    \/ \E c \in Conns : ReceiveEmpty(c)
    \/ \E c \in Conns : Receive(c)
    \/ \E c \in Conns : ConnLock(c)
    \/ \E c \in Conns : ExecUse(c)
    \/ \E c \in Conns : ExecReset(c)
    \/ \E c \in Conns : ExecReload(c)
    \/ \E c \in Conns : ExecPause(c)
    \/ \E c \in Conns : ExecResume(c)
    \/ \E c \in Conns : ExecPrint(c)
    \/ \E c \in Conns : ExecUnknown(c)
    \/ \E c \in Conns : Close(c)


Spec == Init /\ [][Next]_vars

\* --------------------------------------------------------------- fairness
\* The match of process_command, whichever arm the request selects.
Exec(c) ==
    \/ ExecUse(c) \/ ExecReset(c) \/ ExecReload(c) \/ ExecPause(c)
    \/ ExecResume(c) \/ ExecPrint(c) \/ ExecUnknown(c)

\* The tokio runtime keeps polling every task that can run, and the tokio
\* Mutex queues its waiters first-in first-out, so a task that keeps
\* waiting for the lock gets it. Nothing is assumed of signals, clients or
\* the tick timer.
Fairness ==
    /\ SF_vars(TickLock)
    /\ WF_vars(TickStep)
    /\ WF_vars(TickCommit)
    /\ WF_vars(SelectBreak)
    /\ WF_vars(AcceptStop)
    /\ WF_vars(JoinSocket)
    /\ SF_vars(CleanupLock)
    /\ WF_vars(Cleanup)
    /\ \A c \in Conns : SF_vars(ConnLock(c))
    /\ \A c \in Conns : WF_vars(Exec(c))
    /\ \A c \in Conns : WF_vars(Close(c))

\* The controller after n ticks that read the same temperature on AC power with
\* every hardware call succeeding.
RECURSIVE AfterTicks(_, _)
AfterTicks(ctrl, n) ==
    IF n = 0 THEN ctrl
    ELSE LET before == AfterTicks(ctrl, n - 1)
             t == CHOOSE x \in Temps : TRUE
             s == step_begin(before, Ok(t), "ac", "ac", Ok(t), "ok")
         IN  IF s.kind = "written" THEN step_commit(s.controller, s.temp, s.new_speed)
             ELSE s.controller

\* The daemon between two ticks, one tick short of a full history window:
\* started on the two-strategy config without --strategy, no client
\* connected yet. A state of Spec, taken as the start of the liveness runs.
LiveInit ==
    /\ \E cfg \in {c \in LoadResults \ {ConfigErr} : c.default_strategy = "lazy"} :
          controller = AfterTicks(new(cfg, None), MaxSamples - 1)
    /\ lock = Free
    /\ ec = [auto |-> FALSE, duty |-> controller.current_speed]
    /\ mainpc = "select"
    /\ pending = NoPending
    /\ sig = FALSE
    /\ shutdown = FALSE
    /\ accpc = "run"
    /\ cleanup_result = "<not called>"
    /\ connpc = [c \in Conns |-> "idle"]
    /\ served = [c \in Conns |-> NotServed]

LiveSpec == LiveInit /\ [][Next]_vars /\ Fairness

\* ---------------------------------------------------------- long history
\* A machine that warms by one degree per successful sensor read: the k-th
\* sample a tick appends is k, so the history shows which samples it holds
\* and in which order they arrived.
NextArrival(ctrl) ==
    IF ctrl.temp_history = <<>> THEN 1
    ELSE ctrl.temp_history[Len(ctrl.temp_history)] + 1

\* select!: the sleep branch, for as long as the machine keeps warming.
HistorySleep ==
    /\ mainpc = "select" /\ ~sig
    /\ NextArrival(controller) <= MaxArrivals
    /\ mainpc' = "tick_lock"
    /\ UNCHANGED <<controller, lock, ec, pending, sig, shutdown, accpc, cleanup_result, connVars>>

\* ctrl.step() up to the duty write, on the warming machine; every other
\* hardware call may still fail.
HistoryStep ==
    /\ mainpc = "step"
    /\ \E read \in {Ok(NextArrival(controller)), Err("Ec")},
          ac1 \in AcReadsOf(controller), ac2 \in AcReadsOf(controller),
          actual \in {Ok(NextArrival(controller)), Err("Ec")}, write \in CallResults :
        LET s == step_begin(controller, read, ac1, ac2, actual, write)
        IN  /\ controller' = s.controller
            /\ CASE s.kind = "written" ->
                      /\ ec' = [auto |-> FALSE, duty |-> s.new_speed]
                      /\ pending' = [temp |-> s.temp, new_speed |-> s.new_speed]
                      /\ mainpc' = "step_written"
                      /\ lock' = lock
                 [] s.kind = "panic" ->
                      /\ mainpc' = "panicked"
                      /\ UNCHANGED <<ec, pending, lock>>
                 [] OTHER ->
                      /\ mainpc' = "select"
                      /\ lock' = Free
                      /\ UNCHANGED <<ec, pending>>
    /\ UNCHANGED <<sig, shutdown, accpc, cleanup_result, connVars>>

\* The tick loop alone, with no client and no signal, run past the cap of
\* the history.
HistoryNext ==
    \/ HistorySleep
    \/ TickLock
    \/ HistoryStep
    \/ TickCommit

HistorySpec == Init /\ [][HistoryNext]_vars

\* ----------------------------------------------------------- speed curves
\* Control points a config file can hold: `temp` and `speed` are u32 fields
\* and the document is not checked against any range.
CurvePoints == [temp : {40, 80}, speed : {0, 60, 150}]

\* Speed curves of up to MaxCurveLen points, in any order.
Curves == UNION {[1..n -> CurvePoints] : n \in 0..MaxCurveLen}

\* Config files with one strategy, recomputed on every tick, over each curve.
CurveFiles ==
    { [default_strategy |-> "agile", strategy_on_discharging |-> "",
       strategies |-> [n \in {"agile"} |->
           [fan_speed_update_frequency |-> 1, moving_average_interval |-> 0,
            speed_curve |-> curve]]] : curve \in Curves }

\* Sensor temperatures below, between and above the control points.
CurveTemps == {30, 60, 90}

\* The tick loop is entered with a config that Config::load accepted.
CurveInit ==
    /\ \E cfg \in {c \in CurveFiles : validate(c)} : controller = new(cfg, None)
    /\ lock = Free
    /\ ec = [auto |-> TRUE, duty |-> 0]
    /\ mainpc = "select"
    /\ pending = NoPending
    /\ sig = FALSE
    /\ shutdown = FALSE
    /\ accpc = "run"
    /\ cleanup_result = "<not called>"
    /\ connpc = [c \in Conns |-> "idle"]
    /\ served = [c \in Conns |-> NotServed]

\* ctrl.step() up to the duty write, the sensor reading any of CurveTemps.
CurveStep ==
    /\ mainpc = "step"
    /\ \E read \in {Ok(t) : t \in CurveTemps} \cup {Err("Ec")},
          ac1 \in AcReadsOf(controller), ac2 \in AcReadsOf(controller),
          actual \in {Ok(t) : t \in CurveTemps} \cup {Err("Ec")}, write \in CallResults :
        LET s == step_begin(controller, read, ac1, ac2, actual, write)
        IN  /\ controller' = s.controller
            /\ CASE s.kind = "written" ->
                      /\ ec' = [auto |-> FALSE, duty |-> s.new_speed]
                      /\ pending' = [temp |-> s.temp, new_speed |-> s.new_speed]
                      /\ mainpc' = "step_written"
                      /\ lock' = lock
                 [] s.kind = "panic" ->
                      /\ mainpc' = "panicked"
                      /\ UNCHANGED <<ec, pending, lock>>
                 [] OTHER ->
                      /\ mainpc' = "select"
                      /\ lock' = Free
                      /\ UNCHANGED <<ec, pending>>
    /\ UNCHANGED <<sig, shutdown, accpc, cleanup_result, connVars>>

\* The tick loop alone, over every accepted curve.
CurveNext ==
    \/ SelectSleep
    \/ TickLock
    \/ CurveStep
    \/ TickCommit

CurveSpec == CurveInit /\ [][CurveNext]_vars

\* ================================================================ claims
\* The tasks that are between a lock().await and the drop of its guard.
InCriticalSection ==
    (IF mainpc \in {"step", "step_written", "cleanup"} THEN {Main} ELSE {})
    \cup {Conn(c) : c \in {d \in Conns : connpc[d] = "cs"}}

\* C1 (parts): the tick and every command handler run their critical section only
\* as the one holder of the controller lock: at most one task is inside at
\* a time and the lock names it, the half-applied state between the duty
\* write and its assignments exists only under the tick's lock, and the
\* controller changes only in a step of the task that holds the lock.
C1_Inside ==
    /\ Cardinality(InCriticalSection) <= 1
    /\ \A h \in InCriticalSection : lock = h
    /\ (pending # NoPending => lock = Main)
C1_Mutation ==
    controller' # controller =>
        /\ lock # Free
        /\ InCriticalSection = {lock}
        /\ \/ lock = Main /\ mainpc' # mainpc
           \/ \E c \in Conns : lock = Conn(c) /\ connpc[c] = "cs" /\ connpc'[c] = "reply"
\* C1: ticks and command executions are serialized by the one controller
\* lock: C1_Inside holds in every state and C1_Mutation in every step.
C1_LockSerializes == []C1_Inside /\ [][C1_Mutation]_vars

\* C1 witness: the tick is between its duty write and its assignments while
\* a command handler waits for the lock.
C1_Witness == mainpc = "step_written" /\ \E c \in Conns : connpc[c] = "lock"

\* C2: every command request that reaches the server is answered: when
\* process_command fails in-protocol (unknown verb, `use` of an unknown
\* strategy, unknown print selector, failed reload, hardware error) the
\* handler writes a failure envelope, and never closes the stream without
\* having written a response.
C2_AlwaysReplies ==
    \A c \in Conns :
        (/\ connpc[c] = "reply"
         /\ Len(served[c].request) > 0
         /\ served[c].result # Panicked)
            => served[c].reply # NoReply

\* C3: whenever the daemon has left its tick loop and the process is gone,
\* the enable_auto_fan call of the shutdown sequence was made, and it was
\* made after the last tick and after the accept loop stopped.
C3_RestoreBeforeExit ==
    /\ (~ProcessAlive => cleanup_result # NotCalled)
    /\ (cleanup_result # NotCalled => (mainpc = "exited" /\ accpc = "done"))

\* Positions of run_service inside `loop { select! { .. } }`.
InTickLoop == mainpc \in {"select", "tick_lock", "step", "step_written"}

\* C4: the tick loop is left only after a termination signal was
\* delivered; no tick and no command ends the loop or the process.
C4_LoopEndsOnlyOnSignal == ~InTickLoop => sig

SpeedRequests == {<<"print">>, <<"print", "speed">>}

\* C6: whenever the controller lock is free, current_speed is the duty of
\* the last duty write the hardware accepted from a tick (0 before the
\* first), and the speed a print command replies is that duty.
C6_SpeedIsAppliedDuty ==
    /\ (lock = Free => controller.current_speed = ec.duty)
    /\ \A c \in Conns :
          (/\ connpc[c] = "reply"
           /\ served[c].request \in SpeedRequests
           /\ served[c].result.ok)
              => served[c].reply.speed = ec.duty

\* C6 witness: `print speed` is answered with a non-zero duty, which a tick
\* wrote and recorded before the handler took the lock.
C6_Witness ==
    \E c \in Conns :
        /\ connpc[c] = "reply"
        /\ served[c].request = <<"print", "speed">>
        /\ served[c].result.ok
        /\ served[c].reply.speed > 0
        /\ Len(controller.temp_history) > 0

\* The strategy name C7 describes for a known power state.
C7_Resolved(ctrl, ac) ==
    IF ctrl.overwritten_strategy # None
       /\ HasStrategy(ctrl.config, ctrl.overwritten_strategy)
    THEN ctrl.overwritten_strategy
    ELSE IF ac = "ac" THEN ctrl.config.default_strategy
    ELSE IF ctrl.config.strategy_on_discharging # ""
    THEN ctrl.config.strategy_on_discharging
    ELSE ctrl.config.default_strategy

\* C7: on every controller state and power state, strategy resolution
\* returns the override when it is set and a key of the config, otherwise
\* the default strategy on AC, otherwise strategy_on_discharging when
\* non-empty and else the default strategy; an override that is not a key
\* of the config falls through to the AC/discharging rules.
C7_Resolution ==
    \A ac \in {"ac", "battery"} :
        /\ get_current_strategy_name(controller, ac) = C7_Resolved(controller, ac)
        /\ get_current_strategy(controller, ac)
              = controller.config.strategies[C7_Resolved(controller, ac)]

\* C8 as stated: with no override and a failed power-source read,
\* resolution treats the machine as on AC and returns the default
\* strategy; a reply that names the strategy after a failed read therefore
\* names the default strategy.
C8_FailedReadMeansAC ==
    /\ controller.overwritten_strategy = None =>
          /\ get_current_strategy_name(controller, HwErr)
                = controller.config.default_strategy
          /\ get_current_strategy(controller, HwErr)
                = controller.config.strategies[controller.config.default_strategy]
    /\ \A c \in Conns :
          (connpc[c] = "reply" /\ served[c].power = HwErr /\ served[c].result.ok)
              => served[c].reply.strategy = controller.config.default_strategy

\* The strategy name used on battery.
C8_OnBattery(cfg) ==
    IF cfg.strategy_on_discharging # "" THEN cfg.strategy_on_discharging
    ELSE cfg.default_strategy

\* C8, amended: with no override and a failed power-source read,
\* resolution treats the machine as on battery: it returns
\* strategy_on_discharging when that is non-empty and the default strategy
\* otherwise, and a reply that names the strategy after a failed read
\* names that one.
C8_FailedReadMeansBattery ==
    /\ controller.overwritten_strategy = None =>
          /\ get_current_strategy_name(controller, HwErr)
                = C8_OnBattery(controller.config)
          /\ get_current_strategy(controller, HwErr)
                = controller.config.strategies[C8_OnBattery(controller.config)]
    /\ \A c \in Conns :
          (connpc[c] = "reply" /\ served[c].power = HwErr /\ served[c].result.ok)
              => served[c].reply.strategy = C8_OnBattery(controller.config)

\* C8 witness: a command is answered after its power-source read failed,
\* and the strategy it names is the discharging one, not the default.
C8_Witness ==
    \E c \in Conns :
        /\ connpc[c] = "reply"
        /\ served[c].power = HwErr
        /\ served[c].result.ok
        /\ served[c].reply.strategy = controller.config.strategy_on_discharging
        /\ served[c].reply.strategy # controller.config.default_strategy

\* Strategy names a `use` request can carry.
UseNames == {parts[2] : parts \in {p \in WithVerb("use") : Len(p) >= 2}}

\* C9 on the function: overwrite(name) fails with the unknown-strategy
\* error and changes nothing when name is not a config key; otherwise it
\* sets the override to name and timecount to 0 and nothing else, and the
\* resolved strategy name is then name.
C9_Overwrite(ctrl, name) ==
    LET o == overwrite_strategy(ctrl, name)
    IN  IF name \notin DOMAIN ctrl.config.strategies
        THEN o.result = Err("Strategy") /\ o.controller = ctrl
        ELSE /\ o.result.ok
             /\ o.controller = [ctrl EXCEPT !.overwritten_strategy = name, !.timecount = 0]
             /\ \A ac \in AcReads : get_current_strategy_name(o.controller, ac) = name

\* C9: `use <name>` with a name that is not a key of the current config
\* fails with the unknown-strategy error and leaves the whole controller
\* as it was; with a key it sets the override to name, resets timecount to
\* 0, leaves the rest alone and reports name as the current strategy.
C9_Use ==
    /\ \A name \in UseNames : C9_Overwrite(controller, name)
    /\ \A c \in Conns :
          (connpc[c] = "reply" /\ served[c].request \in WithVerb("use")
                               /\ Len(served[c].request) >= 2)
              => LET name == served[c].request[2]
                     before == served[c].before
                 IN  IF name \notin DOMAIN before.config.strategies
                     THEN /\ served[c].result = Err("Strategy")
                          /\ controller = before
                     ELSE /\ served[c].result.ok
                          /\ controller.overwritten_strategy = name
                          /\ controller.timecount = 0
                          /\ controller = [before EXCEPT !.overwritten_strategy = name,
                                                         !.timecount = 0]
                          /\ served[c].reply.strategy = name

\* C9 witness: `use agile` is answered with "agile" on a controller whose
\* timecount had advanced and whose override was not agile before.
C9_Witness ==
    \E c \in Conns :
        /\ connpc[c] = "reply"
        /\ served[c].request = <<"use", "agile">>
        /\ served[c].result.ok
        /\ served[c].reply.strategy = "agile"
        /\ served[c].before.timecount > 0
        /\ served[c].before.overwritten_strategy # "agile"
        /\ controller.timecount = 0

\* C10 on the function: after replaces the config of before by cfg, keeps
\* the override exactly when it names a key of cfg, touches nothing else,
\* and resolves to a strategy of cfg whatever the power state.
C10_Reloaded(before, cfg, after) ==
    /\ after.config = cfg
    /\ after.overwritten_strategy =
          IF before.overwritten_strategy # None
             /\ before.overwritten_strategy \in DOMAIN cfg.strategies
          THEN before.overwritten_strategy
          ELSE None
    /\ after = [before EXCEPT !.config = cfg,
                              !.overwritten_strategy = after.overwritten_strategy]
    /\ \A ac \in AcReads :
          /\ get_current_strategy_name(after, ac) \in DOMAIN cfg.strategies
          /\ get_current_strategy(after, ac)
                = cfg.strategies[get_current_strategy_name(after, ac)]

\* C10: a successful `reload` replaces the config by the loaded one, keeps
\* the override exactly when its name is a key of the new config and
\* clears it otherwise; after it, strategy resolution returns a strategy
\* of the new config only.
C10_Reload ==
    /\ \A cfg \in LoadResults \ {ConfigErr} :
          C10_Reloaded(controller, cfg, reload_config(controller, cfg))
    /\ \A c \in Conns :
          (connpc[c] = "reply" /\ served[c].request = <<"reload">>
                               /\ served[c].result.ok)
              => /\ controller.config \in LoadResults \ {ConfigErr}
                 /\ C10_Reloaded(served[c].before, controller.config, controller)

\* C10 witness: a reload is answered whose new config lacks the strategy
\* the override named, and the override is gone.
C10_Witness ==
    \E c \in Conns :
        /\ connpc[c] = "reply"
        /\ served[c].request = <<"reload">>
        /\ served[c].result.ok
        /\ served[c].before.overwritten_strategy
              \in DOMAIN served[c].before.config.strategies
        /\ served[c].before.overwritten_strategy \notin DOMAIN controller.config.strategies
        /\ controller.overwritten_strategy = None

\* Two controllers resolve alike: same name and same strategy whatever
\* the power-source read returns.
C11_SameResolution(a, b) ==
    \A ac \in AcReads :
        /\ get_current_strategy_name(a, ac) = get_current_strategy_name(b, ac)
        /\ get_current_strategy(a, ac) = get_current_strategy(b, ac)

\* C11: for every strategy name x of the config, overwrite(x) followed by
\* reset resolves, under every power state, as a controller with the same
\* config that was never overwritten; and after every `reset` command the
\* controller resolves as that never-overwritten controller does.
C11_UseThenReset ==
    /\ \A x \in DOMAIN controller.config.strategies :
          LET used == overwrite_strategy(controller, x)
          IN  /\ used.result.ok
              /\ C11_SameResolution(clear_overwritten_strategy(used.controller),
                                    new(controller.config, None))
    /\ \A c \in Conns :
          (connpc[c] = "reply" /\ served[c].request = <<"reset">>)
              => /\ served[c].result.ok
                 /\ C11_SameResolution(controller, new(controller.config, None))
                 /\ served[c].reply.strategy
                       = get_current_strategy_name(new(controller.config, None),
                                                   served[c].power)

\* C11 witness: `reset` is answered on a controller whose override an
\* earlier `use agile` had set, and the name replied is not agile.
C11_Witness ==
    \E c \in Conns :
        /\ connpc[c] = "reply"
        /\ served[c].request = <<"reset">>
        /\ served[c].before.overwritten_strategy = "agile"
        /\ served[c].reply.strategy # "agile"

\* C12: `print current` succeeds and reports default = true exactly when
\* no override is set: with an override X (after `use X`) it reports
\* strategy X and default false; with no override (after `reset`) and AC
\* present it reports the configured default strategy and default true.
C12_PrintCurrent ==
    \A c \in Conns :
        (connpc[c] = "reply" /\ served[c].request = <<"print", "current">>)
            => /\ served[c].result.ok
               /\ served[c].reply.status = "success"
               /\ served[c].reply.default = (controller.overwritten_strategy = None)
               /\ (controller.overwritten_strategy # None
                     => served[c].reply.strategy = controller.overwritten_strategy)
               /\ ((controller.overwritten_strategy = None /\ served[c].power = "ac")
                     => served[c].reply.strategy = controller.config.default_strategy)

\* C12 witness: `print current` is answered with strategy agile and default
\* false, the override a `use agile` left behind.
C12_Witness ==
    \E c \in Conns :
        /\ connpc[c] = "reply"
        /\ served[c].request = <<"print", "current">>
        /\ controller.overwritten_strategy = "agile"
        /\ served[c].reply.strategy = "agile"
        /\ served[c].reply.default = FALSE

\* C13 (parts): a `pause` command leaves active false and nothing else
\* changed, its enable_auto_fan call was made (it either put the hardware
\* in autonomous mode or failed the command), and a tick that has written
\* a duty is a tick of an active controller; in every step between a pause
\* and the next resume the hardware receives no duty and current_speed
\* keeps its value.
C13_Paused ==
    /\ (mainpc = "step_written" => controller.active)
    /\ \A c \in Conns :
          (connpc[c] = "reply" /\ served[c].request = <<"pause">>)
              => /\ controller = [served[c].before EXCEPT !.active = FALSE]
                 /\ served[c].result \in {Ok([status |-> "success"]), Err("Ec")}
                 /\ (served[c].result.ok => ec.auto)
C13_NoWriteWhilePaused ==
    (~controller.active /\ ~controller'.active)
        => /\ ec'.duty = ec.duty
           /\ (ec.auto => ec'.auto)
           /\ controller'.current_speed = controller.current_speed
\* C13: pause sets active to false and calls the hardware's autonomous
\* mode; from a pause to the next resume no tick writes a duty and no tick
\* changes current_speed.
C13_PauseStopsWrites == []C13_Paused /\ [][C13_NoWriteWhilePaused]_vars

\* C13 witness: the controller is paused, a tick has appended a sample, and
\* the hardware, left in autonomous mode, never received a duty.
C13_Witness ==
    /\ ~controller.active
    /\ Len(controller.temp_history) > 0
    /\ controller.current_speed = 0
    /\ ec = [auto |-> TRUE, duty |-> 0]
    /\ mainpc = "select"

\* A `resume` command has just run on connection c.
C14_Resumed(c) == connpc[c] = "reply" /\ served[c].request = <<"resume">>

\* C14 as stated: after the resume of a paused controller the controller
\* is active, and the next successful tick (one that returns Ok) writes a
\* duty to the hardware.
C14_NextTickWrites ==
    \A c \in Conns :
        (C14_Resumed(c) /\ ~served[c].before.active)
            => /\ controller.active
               /\ \A read \in TempReads, ac1 \in AcReadsOf(controller),
                     ac2 \in AcReadsOf(controller),
                     actual \in ActualReadsOf(controller), write \in CallResults :
                     LET s == step_begin(controller, read, ac1, ac2, actual, write)
                     IN  s.kind \in {"done", "written"} => s.kind = "written"

\* C14, amended (parts): a resume leaves active true and nothing else
\* changed; the next successful tick writes a duty, and then records it as
\* current_speed, exactly when it recomputes the speed, that is when
\* timecount is a multiple of the strategy's update frequency, and
\* otherwise only appends its sample.
C14_AfterResume ==
    \A c \in Conns :
        C14_Resumed(c)
            => /\ served[c].result = Ok([status |-> "success"])
               /\ controller = [served[c].before EXCEPT !.active = TRUE]
               /\ \A read \in TempReads, ac1 \in AcReadsOf(controller),
                     ac2 \in AcReadsOf(controller),
                     actual \in ActualReadsOf(controller), write \in CallResults :
                     LET s == step_begin(controller, read, ac1, ac2, actual, write)
                     IN  s.kind \in {"done", "written"}
                           => LET freq == get_current_strategy(controller, ac1)
                                              .fan_speed_update_frequency
                              IN  IF controller.timecount % freq = 0
                                  THEN /\ s.kind = "written"
                                       /\ step_commit(s.controller, s.temp, s.new_speed)
                                             .current_speed = s.new_speed
                                  ELSE /\ s.kind = "done"
                                       /\ s.controller = push_sample(controller, s.temp)
\* The step in which a resume command runs makes no hardware call.
C14_ResumeLeavesHardware ==
    (\E c \in Conns : connpc[c] = "cs" /\ connpc'[c] = "reply"
                       /\ served'[c].request = <<"resume">>)
        => ec' = ec
\* C14, amended: resume sets active to true without any hardware call, and
\* the next successful tick on which the speed is recomputed (timecount a
\* multiple of the update frequency) writes a duty and updates
\* current_speed; a successful tick before that one writes nothing.
C14_ResumeThenRecompute == []C14_AfterResume /\ [][C14_ResumeLeavesHardware]_vars

\* C14 witness: a paused controller is resumed between two recomputations
\* of a strategy that recomputes every second tick.
C14_Witness ==
    \E c \in Conns :
        /\ C14_Resumed(c)
        /\ ~served[c].before.active
        /\ controller.active
        /\ controller.overwritten_strategy = "lazy"
        /\ HasStrategy(controller.config, "lazy")
        /\ controller.timecount = 1

\* C15 (parts): the history never holds more than 100 samples; when n
\* samples have been appended it holds the last min(n, 100) of them, oldest
\* first; and every tick that returns Ok appends its sample at the back,
\* evicting the front one when 100 are held.
C15_Held ==
    LET h == controller.temp_history
        n == NextArrival(controller) - 1
    IN  /\ Len(h) <= TEMP_HISTORY_MAX_LEN
        /\ Len(h) = (IF n > TEMP_HISTORY_MAX_LEN THEN TEMP_HISTORY_MAX_LEN ELSE n)
        /\ \A i \in 1..Len(h) : h[i] = n - Len(h) + i
C15_Appended ==
    (mainpc \in {"step", "step_written"} /\ mainpc' = "select"
                                        /\ controller' # controller)
        => LET h == controller.temp_history
           IN  controller'.temp_history =
                   Append(IF Len(h) = TEMP_HISTORY_MAX_LEN THEN Tail(h) ELSE h,
                          NextArrival(controller))
\* C15: temp_history holds at most 100 samples in every state; once more
\* than 100 samples have been appended it holds exactly 100, the most
\* recent ones in arrival order, the oldest evicted first.
C15_HistoryFifo == []C15_Held /\ [][C15_Appended]_vars

\* C15 witness: 102 samples have been appended and the history holds the
\* samples 3 to 102.
C15_Witness ==
    /\ Len(controller.temp_history) = TEMP_HISTORY_MAX_LEN
    /\ controller.temp_history[1] = 3
    /\ controller.temp_history[TEMP_HISTORY_MAX_LEN] = 102

\* C16 (parts): when a tick is about to run step(), every outcome in
\* which the temperature read fails, or in which the duty write of a
\* recomputing tick of an active controller fails, returns Err with the
\* controller exactly as it was; and a tick that ends without a duty write
\* either appended its sample or changed nothing at all, the hardware
\* included.
C16_FailedTick ==
    mainpc = "step" =>
        \A read \in TempReads, ac1 \in AcReadsOf(controller),
           ac2 \in AcReadsOf(controller),
           actual \in ActualReadsOf(controller), write \in CallResults :
            LET s == step_begin(controller, read, ac1, ac2, actual, write)
            IN  (/\ s.kind # "panic"
                 /\ \/ ~read.ok
                    \/ /\ write = HwErr
                       /\ controller.active
                       /\ controller.timecount
                            % get_current_strategy(controller, ac1)
                                  .fan_speed_update_frequency = 0)
                    => (s.kind = "err" /\ s.controller = controller)
C16_TickEnds ==
    (mainpc = "step" /\ mainpc' = "select")
        => \/ controller' = controller /\ ec' = ec
           \/ /\ controller'.temp_history # controller.temp_history
              /\ ec' = ec
\* C16: a tick in which the temperature read or the duty write fails
\* changes nothing: temp_history, timecount, current_speed, active, the
\* override and the config are as before the tick.
C16_FailedTickChangesNothing == []C16_FailedTick /\ [][C16_TickEnds]_vars

\* C16 witness: the tick of an active controller holds the lock and is
\* about to recompute the speed, with a sample in the history and a
\* timecount that a change would show.
C16_Witness ==
    /\ mainpc = "step"
    /\ controller.active
    /\ controller.overwritten_strategy = "agile"
    /\ controller.config.strategies["agile"].fan_speed_update_frequency = 1
    /\ controller.timecount = 1
    /\ Len(controller.temp_history) > 0

\* C17: once the daemon has taken the lock for its restore call, and when
\* it has exited, no accepted connection has a handler still waiting for
\* the lock or running its command: every command that was read has been
\* carried out.
C17_HandlersFinishedFirst ==
    mainpc \in {"cleanup", "exited"}
        => \A c \in Conns : connpc[c] \notin {"lock", "cs"}

\* C18: under fair scheduling, once a termination signal was delivered the
\* tick loop is left, the shutdown flag is set, the accept loop stops and
\* the daemon makes its restore call.
C18_SignalLeadsToRestore ==
    sig ~> (shutdown /\ accpc = "done" /\ cleanup_result # NotCalled)

\* C19: a print command, whatever its selector and whether it succeeds,
\* fails or faults, leaves the controller as it found it: override, config,
\* temp_history, current_speed, active and timecount are those from before
\* the command.
C19_PrintReadsOnly ==
    \A c \in Conns :
        (connpc[c] = "reply" /\ served[c].request \in WithVerb("print"))
            => controller = served[c].before

\* C19 witness: `print` with the default selector "all" was answered on a
\* controller that holds samples and is part-way through its cadence.
C19_Witness ==
    \E c \in Conns :
        /\ connpc[c] = "reply"
        /\ served[c].request = <<"print">>
        /\ served[c].result.ok
        /\ served[c].before.temp_history # <<>>
        /\ served[c].before.timecount > 0
        /\ served[c].before.overwritten_strategy # None

\* C20: the speed a tick computes from the curve of an accepted config, and
\* the current_speed it stores, lie within 0..100.
C20_SpeedInRange ==
    /\ controller.current_speed \in 0..100
    /\ mainpc = "step_written" => pending.new_speed \in 0..100

\* The speed curve the daemon of CurveSpec runs on, and the temperatures the
\* curve claims are evaluated at.
C21_Curve == controller.config.strategies[controller.config.default_strategy].speed_curve
C21_Temperatures == 0..120
C21_NonDecreasingTemps(curve) ==
    \A i \in 1..(Len(curve) - 1) : curve[i].temp <= curve[i + 1].temp

\* C21: on a non-empty curve with non-decreasing temperatures interpolate
\* returns the first point's speed at and below the first point's
\* temperature and the last point's speed above the last point's
\* temperature; a single-point curve returns its speed for every input and
\* the empty curve returns 0.
C21_FlatEnds ==
    LET curve == C21_Curve
    IN  /\ \A t \in C21_Temperatures : interpolate(<<>>, t) = 0
        /\ Len(curve) = 1
              => \A t \in C21_Temperatures : interpolate(curve, t) = curve[1].speed
        /\ (Len(curve) > 0 /\ C21_NonDecreasingTemps(curve))
              => \A t \in C21_Temperatures :
                    /\ t <= curve[1].temp => interpolate(curve, t) = curve[1].speed
                    /\ t > curve[Len(curve)].temp
                          => interpolate(curve, t) = curve[Len(curve)].speed

\* C21 witness: the first tick reads a temperature above the last point of
\* a rising two-point curve and writes the last point's speed.
C21_Witness ==
    /\ mainpc = "step_written"
    /\ controller.temp_history = <<>>
    /\ Len(C21_Curve) = 2
    /\ C21_Curve[1].temp < C21_Curve[2].temp
    /\ C21_Curve[1].speed < C21_Curve[2].speed
    /\ pending.temp > C21_Curve[2].temp
    /\ pending.new_speed = C21_Curve[2].speed

C22_StrictTemps(curve) ==
    \A i \in 1..(Len(curve) - 1) : curve[i].temp < curve[i + 1].temp

C22_ReachedAt(curve, i) ==
    Clamp(curve[i - 1].speed
              + (curve[i].temp - curve[i - 1].temp)
                    * TruncDiv(curve[i].speed - curve[i - 1].speed,
                               curve[i].temp - curve[i - 1].temp), 0, 100)

C23_NonDecreasingSpeeds(curve) ==
    \A i \in 1..(Len(curve) - 1) : curve[i].speed <= curve[i + 1].speed

\* C23: on a curve whose points have non-decreasing temperature and
\* non-decreasing speed, interpolate is non-decreasing in temperature.
C23_Monotonic ==
    (C21_NonDecreasingTemps(C21_Curve) /\ C23_NonDecreasingSpeeds(C21_Curve))
        => \A t1, t2 \in C21_Temperatures :
              t1 <= t2 => interpolate(C21_Curve, t1) <= interpolate(C21_Curve, t2)

\* The tick of HistorySpec that is being taken read its temperature, passed
\* the cadence check and had its duty write refused.
C24_WriteFails ==
    /\ mainpc = "step"
    /\ \E ac1 \in AcReadsOf(controller), ac2 \in AcReadsOf(controller),
          actual \in {Ok(NextArrival(controller)), Err("Ec")} :
          LET s == step_begin(controller, Ok(NextArrival(controller)),
                              ac1, ac2, actual, HwErr)
          IN  /\ s.kind = "err"
              /\ controller' = s.controller
              /\ mainpc' = "select"

\* C24 as stated: a tick whose cadence check passes resets timecount even
\* when the duty write fails, so the counter is 0 (or 1, once incremented)
\* after it.
C24_FailedWriteResets == [][C24_WriteFails => controller'.timecount \in {0, 1}]_vars

\* C24 amended: a failed duty write ends the tick before the reset: the
\* counter and the rest of the controller are as before the tick, so the
\* cadence check passes again on the next tick; the counter is reset, and
\* is 1 at the end of the tick, only when the write succeeded.
C24_Tick ==
    /\ C24_WriteFails => controller' = controller
    /\ (mainpc = "step_written" /\ mainpc' = "select") => controller'.timecount = 1

C24_FailedWriteKeepsCount == [][C24_Tick]_vars

\* C24 witness: a tick holds the lock on an active controller pinned to the
\* strategy recomputed every 2 ticks, with the counter at 2: its cadence
\* check passes and its duty write may fail.
C24_Witness ==
    /\ mainpc = "step"
    /\ controller.active
    /\ controller.overwritten_strategy = "lazy"
    /\ HasStrategy(controller.config, "lazy")
    /\ controller.config.strategies["lazy"].fan_speed_update_frequency = 2
    /\ controller.timecount = 2
    /\ step_begin(controller, Ok(NextArrival(controller)), NotCalled, NotCalled,
                  Err("Ec"), HwErr).kind = "err"

\* C25: a command that changed the override (a successful `use`, a `reset`,
\* a reload that cleared an override the new config does not hold) leaves
\* timecount at 0.
C25_OverrideChangeResets ==
    \A c \in Conns :
        (/\ connpc[c] = "reply"
         /\ served[c].request # <<>>
         /\ served[c].before.overwritten_strategy # controller.overwritten_strategy)
            => controller.timecount = 0

\* The frequencies the strategy resolution of ctrl can yield, over the
\* outcomes of its power read; 0 stands for a resolution that faults.
C26_Frequencies(ctrl) ==
    { LET strategy == get_current_strategy(ctrl, ac)
      IN  IF strategy = PanicStrategy THEN 0 ELSE strategy.fan_speed_update_frequency :
        ac \in AcReadsOf(ctrl) }

\* The resolved strategy has the same frequency f >= 1 whatever the power
\* read returns.
C26_Steady(ctrl, f) == C26_Frequencies(ctrl) = {f} /\ f >= 1

\* Ticks of HistorySpec that ran to their end so far (failed ticks leave no
\* trace and are not counted).
C26_Ticks == NextArrival(controller) - 1

\* With a steady frequency f the counter is 0 before the first tick and
\* afterwards the number of ticks since the last recomputation, 1..f; a
\* duty is being written only on every f-th tick.
C26_Counter ==
    \A f \in 1..2 :
        C26_Steady(controller, f)
            => /\ mainpc \in {"select", "tick_lock", "step"}
                    => controller.timecount =
                          IF C26_Ticks = 0 THEN 0 ELSE ((C26_Ticks - 1) % f) + 1
               /\ mainpc = "step_written"
                    => C26_Ticks % f = 0 /\ controller.timecount % f = 0

\* A tick that does not fail recomputes, and writes the duty, exactly when
\* timecount mod f is 0; a recomputing tick ends with timecount 1, any
\* other tick with timecount one higher and the hardware untouched.
C26_TickStep ==
    \A f \in 1..2 :
        C26_Steady(controller, f)
            => /\ (mainpc = "step" /\ mainpc' = "step_written")
                    => controller.timecount % f = 0
               /\ (mainpc = "step" /\ mainpc' = "select" /\ controller' # controller)
                    => /\ controller.timecount % f # 0
                       /\ controller'.timecount = controller.timecount + 1
                       /\ ec' = ec
               /\ (mainpc = "step_written" /\ mainpc' = "select")
                    => controller'.timecount = 1

\* C26: a tick recomputes the duty cycle exactly when timecount mod
\* fan_speed_update_frequency is 0; while the frequency f stays the same,
\* no command intervenes and no hardware call fails, every f-th tick
\* recomputes and timecount is 1 after each recomputing tick.
C26_Cadence == []C26_Counter /\ [][C26_TickStep]_vars

\* C26 witness: on the strategy recomputed every 2 ticks, the fifth tick
\* (after four completed ones) has written its duty.
C26_Witness ==
    /\ mainpc = "step_written"
    /\ C26_Steady(controller, 2)
    /\ C26_Ticks = 4

\* The strategy that the override state of ctrl calls for when the power
\* read returns ac (a failed read counts as battery).
C27_Expected(ctrl, ac) ==
    ctrl.config.strategies[
        IF ctrl.overwritten_strategy # None THEN ctrl.overwritten_strategy
        ELSE IF ac = "ac" THEN ctrl.config.default_strategy
        ELSE DischargingName(ctrl.config)]

\* A `use` or `reset` that succeeded has just run on connection c.
C27_Completed(c) ==
    /\ connpc[c] = "reply"
    /\ served[c].request \in WithVerb("use") \cup {<<"reset">>}
    /\ served[c].result.ok

\* C27: after a `use` or `reset` that completed, the next tick with a
\* successful temperature read recomputes, whatever the counter was before
\* the command, and computes its speed from the strategy that the new
\* override state calls for: it writes that speed when the controller is
\* active, and otherwise only restarts the counter.
C27_NextTickRecomputes ==
    \A c \in Conns :
        C27_Completed(c)
            => \A read \in TempReads \ {Err("Ec")}, ac1 \in AcReadsOf(controller),
                  ac2 \in AcReadsOf(controller),
                  actual \in ActualReadsOf(controller), write \in CallResults :
                  LET s == step_begin(controller, read, ac1, ac2, actual, write)
                      expected == C27_Expected(controller, ac2)
                  IN  /\ s.kind # "panic"
                      /\ s.new_speed =
                            interpolate(expected.speed_curve,
                                AsU32(get_effective_temperature(controller, read.value,
                                          expected.moving_average_interval, actual)))
                      /\ s.kind = IF ~controller.active THEN "done"
                                  ELSE IF write = "ok" THEN "written" ELSE "err"
                      /\ s.kind = "done" => s.controller.timecount = 1

\* C28: no task holds the controller lock at a suspension point. The main
\* task does not hold it while it waits in select! for the tick deadline
\* or a signal, for the lock itself or for the socket task; a handler does
\* not hold it while it waits for data on its connection or for the lock;
\* the accept task never holds it.
C28_NoLockAcrossSuspension ==
    /\ lock \in {Free, Main} \cup {Conn(c) : c \in Conns}
    /\ mainpc \in {"select", "tick_lock", "join", "cleanup_lock"} => lock # Main
    /\ \A c \in Conns : connpc[c] \in {"idle", "read", "lock"} => lock # Conn(c)

\* C28 witness: one handler runs its command under the lock while the tick
\* waits for the lock and the other handler waits for data.
C28_Witness ==
    /\ mainpc = "tick_lock"
    /\ \E c, d \in Conns :
          /\ connpc[c] = "cs" /\ lock = Conn(c)
          /\ connpc[d] = "read"
          /\ Len(controller.temp_history) > 0

\* C29: the configs that validation accepts give every strategy a
\* frequency of at least 1, so no tick faults on its cadence check: a tick
\* that faulted did so in strategy resolution.
C29_CadenceCheckDefined ==
    mainpc = "panicked"
        => /\ \A n \in DOMAIN controller.config.strategies :
                 controller.config.strategies[n].fan_speed_update_frequency >= 1
           /\ \E ac \in AcReadsOf(controller) :
                 get_current_strategy(controller, ac) = PanicStrategy

\* C30: the override is absent or a key of the current config's
\* strategies, in the initial state and ever after, so strategy resolution
\* never looks up a strategy that does not exist.
C30_OverrideIsKey ==
    \/ controller.overwritten_strategy = None
    \/ HasStrategy(controller.config, controller.overwritten_strategy)

\* The reference algorithm of C31. The scan stops at the first point whose
\* temperature is >= temp: that point is high (default: the last point),
\* and low is the point scanned just before it, the last one with a
\* temperature < temp (default: the first point).
C31_Reference(curve, temp) ==
    LET stops == {i \in 1..Len(curve) : curve[i].temp >= temp}
        stop == IF stops = {} THEN Len(curve) + 1
                ELSE CHOOSE i \in stops : \A k \in stops : i <= k
        low == IF stop = 1 THEN curve[1] ELSE curve[stop - 1]
        high == IF stops = {} THEN curve[Len(curve)] ELSE curve[stop]
        ds == high.speed - low.speed
        dt == high.temp - low.temp
        magnitude == (IF ds < 0 THEN -ds ELSE ds) \div (IF dt < 0 THEN -dt ELSE dt)
        slope == IF (ds < 0) = (dt < 0) THEN magnitude ELSE -magnitude
        value == low.speed + (temp - low.temp) * slope
    IN  IF low.temp = high.temp THEN low.speed
        ELSE IF value < 0 THEN 0 ELSE IF value > 100 THEN 100 ELSE value

\* C31: for every non-empty curve and every temperature of the domain,
\* interpolate returns what the reference algorithm returns.
C31_MatchesReference ==
    \A t \in C21_Temperatures : interpolate(C21_Curve, t) = C31_Reference(C21_Curve, t)

\* C31 witness: a tick on the curve (40,0),(80,60) at 60 degrees has
\* written 20, the value of the reference algorithm between the points.
C31_Witness ==
    /\ mainpc = "step_written"
    /\ controller.temp_history = <<>>
    /\ C21_Curve = <<[temp |-> 40, speed |-> 0], [temp |-> 80, speed |-> 60]>>
    /\ pending.temp = 60
    /\ pending.new_speed = 20
    /\ C31_Reference(C21_Curve, 60) = pending.new_speed

\* The last k samples > 0 of h at or before index i, walking backwards,
\* as <<sum, count>>.
RECURSIVE C32_LastPositive(_, _, _)
C32_LastPositive(h, i, k) ==
    IF i = 0 \/ k = 0 THEN <<0, 0>>
    ELSE IF h[i] > 0
         THEN LET rest == C32_LastPositive(h, i - 1, k - 1)
              IN  <<rest[1] + h[i], rest[2] + 1>>
         ELSE C32_LastPositive(h, i - 1, k)

\* The moving average C32 describes, as the fraction <<sum, count>>: the
\* mean of the last min(interval, n) of the n samples that are > 0, of all
\* n when interval is 0, and the instantaneous reading (50 when that read
\* fails) when n is 0.
C32_Mean(h, interval, actual) ==
    LET n == Cardinality({i \in 1..Len(h) : h[i] > 0})
        k == IF interval = 0 \/ interval > n THEN n ELSE interval
    IN  IF n = 0 THEN <<IF actual.ok THEN actual.value ELSE 50, 1>>
        ELSE C32_LastPositive(h, Len(h), k)

\* The fractions a and b are the same number.
C32_SameFraction(a, b) == a[1] * b[2] = b[1] * a[2]

\* Histories that include samples of 0 and below, which the filter drops.
C32_Histories == UNION {[1..n -> {-5, 0, 40, 70}] : n \in 0..3}
C32_Intervals == 0..4
C32_Actuals == {Ok(60), Err("Ec")}

\* C32: for the history the daemon holds, and for every short history with
\* samples of 0 and below in it, the moving average is the mean of the last
\* min(interval, n) of the n samples > 0 (all n when interval is 0), a
\* history of one positive value v repeated gives v, and with no sample > 0
\* the result is the instantaneous reading, or 50 when that read fails.
C32_MovingAverage ==
    \A interval \in C32_Intervals, actual \in C32_Actuals :
        /\ C32_SameFraction(
               get_moving_average_temperature(controller, interval, actual),
               C32_Mean(controller.temp_history, interval, actual))
        /\ \A h \in C32_Histories :
               LET avg == get_moving_average_temperature(
                              [controller EXCEPT !.temp_history = h], interval, actual)
               IN  /\ C32_SameFraction(avg, C32_Mean(h, interval, actual))
                   /\ (h # <<>> /\ \A i \in 1..Len(h) : h[i] = 40)
                         => C32_SameFraction(avg, <<40, 1>>)
                   /\ (\A i \in 1..Len(h) : h[i] <= 0)
                         => C32_SameFraction(avg, <<IF actual.ok THEN 60 ELSE 50, 1>>)

\* C32 witness: the fifth tick of the warming machine has computed its
\* speed on the strategy with interval 2 from the history 1, 2, 3, 4, whose
\* last-2 average (7/2) is not the average of all (10/4).
C32_Witness ==
    /\ mainpc = "step_written"
    /\ controller.temp_history = <<1, 2, 3, 4>>
    /\ controller.overwritten_strategy = "lazy"
    /\ HasStrategy(controller.config, "lazy")
    /\ controller.config.strategies["lazy"].moving_average_interval = 2
    /\ get_moving_average_temperature(controller, 2, Err("Ec")) = <<7, 2>>
    /\ C32_Mean(controller.temp_history, 0, Err("Ec")) = <<10, 4>>

\* The effective temperature eff (in hundredths of a degree) lies between
\* the moving average avg (a fraction <<sum, count>>) and the sample.
C33_Between(avg, sample, eff) ==
    LET a == 100 * avg[1]
        s == 100 * sample * avg[2]
        e == eff * avg[2]
    IN  (IF a < s THEN a ELSE s) <= e /\ e <= (IF a < s THEN s ELSE a)

\* Histories of k whole-degree samples that are all 40 but the first, which
\* is 40 + first: their average is as close to a whole degree as the
\* history cap allows, within the step of the rounding.
C33_NearHistories ==
    { [i \in 1..k |-> IF i = 1 THEN 40 + first ELSE 40] :
        k \in {1, 2, 3, 60, 67, 99, 100}, first \in {-1, 0, 1, 2} }

\* C33: the effective temperature, (2 * moving_average + sample) / 3
\* rounded to 2 decimal places, lies within [min(moving_average, sample),
\* max(moving_average, sample)], on the history the daemon holds for every
\* interval, and on histories whose average over all samples is within the
\* rounding step of the sample.
C33_EffectiveBetween ==
    /\ \A interval \in C32_Intervals, actual \in C32_Actuals,
          sample \in {1, NextArrival(controller), 120} :
           C33_Between(get_moving_average_temperature(controller, interval, actual),
                       sample,
                       get_effective_temperature(controller, sample, interval, actual))
    /\ \A h \in C33_NearHistories, sample \in 39..42 :
           LET ctrl == [controller EXCEPT !.temp_history = h]
           IN  C33_Between(get_moving_average_temperature(ctrl, 0, Err("Ec")),
                           sample,
                           get_effective_temperature(ctrl, sample, 0, Err("Ec")))

\* C33 witness: the fifth tick of the warming machine reads 5 degrees on
\* the history 1, 2, 3, 4 with interval 2: the effective temperature 4.00
\* lies strictly between the moving average 3.5 and the sample.
C33_Witness ==
    /\ mainpc = "step_written"
    /\ controller.temp_history = <<1, 2, 3, 4>>
    /\ pending.temp = 5
    /\ controller.overwritten_strategy = "lazy"
    /\ HasStrategy(controller.config, "lazy")
    /\ get_effective_temperature(controller, pending.temp,
           controller.config.strategies["lazy"].moving_average_interval, Err("Ec")) = 400
====
